---- MODULE Spec2Model ----
(***************************************************************************)
(* Model of the Bytez API key scraper: BytezAPIKeyScraper.scrape_keys and  *)
(* the operations it calls (core/scraper.py, core/database.py).            *)
(*                                                                         *)
(* scrape_keys is one asyncio coroutine.  Every `await` of the code is a   *)
(* suspension point and one action of the model; the synchronous code      *)
(* between two awaits belongs to the action that runs it.  An external     *)
(* stop request (task cancellation / interrupt) may arrive at any moment   *)
(* and is raised inside the coroutine at the await it is suspended at, or, *)
(* when it arrives while synchronous code runs, at the next await.         *)
(***************************************************************************)
EXTENDS Integers, Sequences, FiniteSets

\* ------------------------------------------------------------------ bounds
MaxAttempts == 2
MaxStops == 1
MaxLen == 3       \* the largest length limit the generators are given
MaxDocs == 2      \* the most documents a collection gets
MaxRequests == 1  \* the most requests the web service is sent

\* ------------------------------------------------- config/settings.py
RATE_LIMIT_PAUSE_DURATION == 600

\* ------------------------------------------------------------- exceptions
\* Python's hierarchy: CancelledError and KeyboardInterrupt derive from
\* BaseException, not from Exception.
StopKinds == {"CancelledError", "KeyboardInterrupt"}
IsException(e) == e = "Exception"

\* Value of page.text_content when the element has no text node.
NoneText == "None"
KeyTexts == {NoneText, "", "k"}
NoRecord == [email |-> 0, password |-> 0, api_key |-> NoneText, scraped_at |-> 0]

\* ------------------------------- the awaits of create_account_and_get_key
ProvisionSteps ==
    << "goto_auth",            \* scraper.py:100  NavigateAuth
       "wait_email_field",     \* scraper.py:105  AwaitCredentialForm
       "fill_email",           \* scraper.py:110
       "fill_password",        \* scraper.py:114
       "click_signin",         \* scraper.py:119  SubmitCredentials
       "wait_for_url",         \* scraper.py:124  AwaitDashboardRedirect
       "goto_api",             \* scraper.py:130  NavigateApiPage
       "wait_select_button",   \* scraper.py:135  AwaitKeyIssuanceControl
       "click_select",         \* scraper.py:140  TriggerKeyIssuanceDialog
       "wait_radio_button",    \* scraper.py:145  AwaitDialogOptions
       "click_radio",          \* scraper.py:150
       "click_checkbox",       \* scraper.py:155
       "click_continue_1",     \* scraper.py:160
       "wait_continue_2",      \* scraper.py:165
       "click_continue_2",     \* scraper.py:170  ConfirmDialogOptions
       "sleep_dialog_close",   \* scraper.py:175  AwaitDialogClose
       "goto_api_again",       \* scraper.py:180  ReloadApiPage
       "wait_api_key_display", \* scraper.py:185
       "text_content" >>       \* scraper.py:190  ExtractKey
NumSteps == Len(ProvisionSteps)

\* asyncio.sleep raises nothing but the cancellation.
IsSleep(s) == ProvisionSteps[s] = "sleep_dialog_close"

\* scraper.py:101, 125, 131, 181  the values of page.url, by the page they
\* name: the sign-up page, BASE_URL + "/", the API page, any other address
PageUrls == {"auth", "landing", "api", "other"}

\* settings.py:108-113
EMAIL_USERNAME_MIN_LENGTH == 8
EMAIL_USERNAME_MAX_LENGTH == 12
PASSWORD_MIN_LENGTH == 12
PASSWORD_MAX_LENGTH == 16

\* settings.py:104-116  the limits generate_random_email and
\* generate_random_password read
DefaultSettings ==
    [ EMAIL_USERNAME_MIN_LENGTH |-> EMAIL_USERNAME_MIN_LENGTH,
      EMAIL_USERNAME_MAX_LENGTH |-> EMAIL_USERNAME_MAX_LENGTH,
      PASSWORD_MIN_LENGTH |-> PASSWORD_MIN_LENGTH,
      PASSWORD_MAX_LENGTH |-> PASSWORD_MAX_LENGTH ]

NotCalled == [fn |-> "none", value |-> << >>]

VARIABLES
    pc,             \* the await (or synchronous call) scrape_keys is at
    i,              \* scrape_keys: attempt counter
    step,           \* index in ProvisionSteps of the await of the current attempt
    use_tor,        \* self.use_tor
    error_occurred, \* scrape_keys: error_occurred
    exc,            \* the exception propagating through the finally blocks
    signal,         \* a stop request that arrived and is not yet raised
    stops,          \* stop requests so far
    account,        \* the record create_account_and_get_key returned
    remaining,      \* display_countdown: loop variable
    browser,        \* "none" | "open" | "closed"
    contexts,       \* open browser contexts, named by the attempt that made them
    collection,     \* MongoDB collection: the inserted documents, in order
    log,            \* per attempt: what happened in it (observation only)
    current_url,    \* create_account_and_get_key: current_url ("none" outside)
    settings,       \* config/settings.py: the four length limits
    generated,      \* the last result of generate_random_email / _password
    scraper_status, \* web_service.py: the global status dictionary
    wpc,            \* web_service.py: where run_scraper is ("none": not run)
    responses       \* web_service.py: the responses served, oldest first

vars == << pc, i, step, use_tor, error_occurred, exc, signal, stops, account,
           remaining, browser, contexts, collection, log, current_url,
           settings, generated, scraper_status, wpc, responses >>

\* web_service.py: what belongs to the web service
webvars == << scraper_status, wpc, responses >>

NewAttempt ==
    [ acquired |-> 0,       \* browser.new_context completed
      released |-> 0,       \* context.close completed
      record |-> NoRecord,  \* what create_account_and_get_key returned
      provisioned |-> FALSE,
      stepFailed |-> FALSE, \* a step of create_account_and_get_key raised
      saves |-> 0,          \* calls of save_api_key_to_db
      saveRaised |-> FALSE,
      ran |-> << >>,        \* the steps of create_account_and_get_key begun
      missing |-> FALSE,    \* a wait ended because what it waited for never came
      shots |-> 0,          \* page.screenshot calls
      shotFailed |-> FALSE, \* page.screenshot raised an Exception
      recov |-> 0,          \* handle_error_recovery calls
      renewed |-> FALSE,    \* renew_tor_ip returned True
      settle |-> 0,         \* completed sleeps of TOR_RENEWAL_WAIT
      pause |-> 0,          \* completed one-second sleeps of the countdown
      delay |-> 0,          \* completed sleeps of DELAY_BETWEEN_REQUESTS
      arrivedAt |-> {},     \* where scrape_keys was when a stop request arrived
      stopAt |-> {} ]       \* the awaits at which a stop request was raised

\* What is kept of an attempt once the next one starts: the waits of its
\* recovery and its stop requests are observed while it is the current one.
Finished(a) ==
    [a EXCEPT !.renewed = FALSE, !.settle = 0, !.pause = 0, !.ran = << >>,
              !.missing = FALSE,
              !.shotFailed = FALSE, !.arrivedAt = {}, !.stopAt = {}]

Note(field, value) == [log EXCEPT ![i][field] = value]
Bump(field) == [log EXCEPT ![i][field] = @ + 1]

TypeOK ==
    /\ i \in 0..MaxAttempts
    /\ step \in 0..NumSteps
    /\ use_tor \in BOOLEAN
    /\ error_occurred \in BOOLEAN
    /\ exc \in {"none", "Exception"} \cup StopKinds
    /\ signal \in {"none"} \cup StopKinds
    /\ remaining \in 0..RATE_LIMIT_PAUSE_DURATION
    /\ browser \in {"none", "open", "closed"}
    /\ contexts \subseteq 1..MaxAttempts
    /\ Len(log) = i
    /\ current_url \in {"none"} \cup PageUrls

Constructed ==
    /\ pc = "launch"
    /\ i = 0
    /\ step = 0
    /\ error_occurred = FALSE
    /\ exc = "none"
    /\ signal = "none"
    /\ stops = 0
    /\ account = NoRecord
    /\ remaining = 0
    /\ browser = "none"
    /\ contexts = {}
    /\ collection = << >>
    /\ log = << >>
    /\ current_url = "none"

\* web_service.py:19-26  scraper_status as the module is loaded; started_at,
\* written once there and never again, is left out.  None is "None".
StatusAtImport ==
    [ status |-> "starting",
      keys_scraped |-> 0,
      last_error |-> "None",
      last_success |-> "None",
      thread_alive |-> FALSE ]

\* main.py: scrape_keys is run without the web service
NoWebService ==
    /\ scraper_status = StatusAtImport
    /\ wpc = "none"
    /\ responses = << >>

Init ==
    /\ Constructed
    /\ use_tor \in BOOLEAN
    /\ settings = DefaultSettings
    /\ generated = NotCalled
    /\ NoWebService


\* ------------------------------------------------------------- helpers
\* What an await gives when the coroutine is resumed: the pending stop request
\* if there is one, else the awaited call's own outcome.
AwaitResults(canRaise) ==
    IF signal # "none" THEN {signal}
    ELSE IF canRaise THEN {"ok", "Exception"} ELSE {"ok"}

NoteStop(l, r) ==
    IF r \in StopKinds /\ i > 0 THEN [l EXCEPT ![i].stopAt = @ \cup {pc}] ELSE l

\* scraper.py:333  `except Exception as e:`
InnerCatches(e) == IsException(e)

\* A failed screenshot that is not caught.
BareExceptCatchesNothing(e) == FALSE

\* scraper.py:341, 350  bare `except:` catches every BaseException
BareExceptCatches(e) == TRUE

\* scraper.py:367  `except KeyboardInterrupt:` around the while loop
OuterHandler(e) == IF e = "KeyboardInterrupt" THEN "none" ELSE e

\* database.py:106  def save_api_key(self, account, scraper_id)
save_api_key_params == << "account", "scraper_id" >>
\* scraper.py:213   self.db_manager.save_api_key(account)
save_api_key_args == << "account" >>

\* database.py:125-136  the document save_api_key inserts
Document(acc, scraper_id, now) ==
    [ scraper_id |-> scraper_id,
      email |-> acc.email,
      password |-> acc.password,
      api_key |-> acc.api_key,
      in_use |-> FALSE,
      locked_at |-> "None",
      used_by |-> "None",
      models_expirations |-> << >>,
      created_at |-> now,
      updated_at |-> now ]

\* database.py:106-150  save_api_key as called from scraper.py:213: Python binds
\* the arguments to the parameters before the body runs and raises TypeError
\* when a required positional parameter gets no argument; in the body
\* insert_one either returns an id or raises, and every failure is re-raised.
save_api_key(args) ==
    IF Len(args) # Len(save_api_key_params)
    THEN {"TypeError"}
    ELSE {"True", "OperationFailure"}

\* scraper.py:201-222  save_api_key_to_db: returns on True, re-raises otherwise
save_api_key_to_db(args) ==
    { IF r = "True" THEN "ok" ELSE "Exception" : r \in save_api_key(args) }

\* ------------------------------------------------------------- actions
\* An external stop request arrives (Ctrl+C / task cancellation).
StopArrives ==
    /\ pc # "done"
    /\ signal = "none"
    /\ stops < MaxStops
    /\ \E k \in StopKinds : signal' = k
    /\ stops' = stops + 1
    /\ log' = IF i > 0 THEN [log EXCEPT ![i].arrivedAt = @ \cup {pc}] ELSE log
    /\ UNCHANGED << pc, i, step, use_tor, error_occurred, exc, account,
                    remaining, browser, contexts, collection >>
    /\ UNCHANGED << current_url, settings, generated, webvars >>

\* scraper.py:295-302  browser = await browser_launcher.launch(...); i = 0
Launch ==
    /\ pc = "launch"
    /\ \E r \in AwaitResults(TRUE) :
         IF r = "ok"
         THEN /\ browser' = "open" /\ pc' = "loop_top" /\ exc' = "none"
         ELSE /\ browser' = browser /\ pc' = "playwright_stop" /\ exc' = r
    /\ signal' = "none"
    /\ UNCHANGED << i, step, use_tor, error_occurred, stops, account,
                    remaining, contexts, collection, log >>
    /\ UNCHANGED << current_url, settings, generated, webvars >>

\* A counter that starts again at every iteration.
NextAttemptRestarts(n) == 1

\* scraper.py:305  i += 1
NextAttempt(n) == n + 1

\* scraper.py:372-374  "Scraping session ended. Total attempts: {i}", printed
\* when scrape_keys returns
TotalAttempts == i

\* scraper.py:304-309  while True: i += 1
LoopTop ==
    /\ pc = "loop_top"
    /\ i < MaxAttempts
    /\ i' = NextAttempt(i)
    /\ log' = Append([n \in 1..Len(log) |-> Finished(log[n])], NewAttempt)
    /\ pc' = "new_context"
    /\ UNCHANGED << step, use_tor, error_occurred, exc, signal, stops, account,
                    remaining, browser, contexts, collection >>
    /\ UNCHANGED << current_url, settings, generated, webvars >>

\* scraper.py:321  context = await browser.new_context(**context_options)
NewContext ==
    /\ pc = "new_context"
    /\ \E r \in AwaitResults(TRUE) :
         /\ IF r = "ok"
            THEN /\ contexts' = contexts \cup {i}
                 /\ log' = Bump("acquired")
                 /\ pc' = "new_page" /\ exc' = "none"
            ELSE /\ contexts' = contexts
                 /\ log' = NoteStop(log, r)
                 /\ pc' = "browser_close" /\ exc' = OuterHandler(r)
    /\ signal' = "none"
    /\ UNCHANGED << i, step, use_tor, error_occurred, stops, account,
                    remaining, browser, collection >>
    /\ UNCHANGED << current_url, settings, generated, webvars >>

\* scraper.py:322-324  page = await context.new_page(); error_occurred = False
\* The call is outside the inner try: when it raises, no finally closes context.
NewPage ==
    /\ pc = "new_page"
    /\ \E r \in AwaitResults(TRUE) :
         /\ IF r = "ok"
            THEN /\ error_occurred' = FALSE
                 /\ step' = 1
                 /\ log' = log
                 /\ pc' = "provision" /\ exc' = "none"
            ELSE /\ error_occurred' = error_occurred
                 /\ step' = step
                 /\ log' = NoteStop(log, r)
                 /\ pc' = "browser_close" /\ exc' = OuterHandler(r)
    /\ signal' = "none"
    /\ UNCHANGED << i, use_tor, stops, account, remaining, browser, contexts,
                    collection >>
    /\ UNCHANGED << current_url, settings, generated, webvars >>

\* scraper.py:194-199  the record create_account_and_get_key returns
Record(text) == [email |-> i, password |-> i, api_key |-> text, scraped_at |-> i]

\* scraper.py:192  api_key[:20] raises TypeError on None
SliceRaises(text) == text = NoneText

\* A step whose exception is swallowed inside create_account_and_get_key.
StepRaisesSwallowed(r, last, text) ==
    IF r \in StopKinds THEN r ELSE "none"

\* scraper.py:98-192  what one step raises out of create_account_and_get_key:
\* the function has no try, so whatever the await raises, and after the last
\* await the TypeError of the slice.
StepRaises(r, last, text) ==
    IF r # "ok" THEN r
    ELSE IF last /\ SliceRaises(text) THEN "Exception" ELSE "none"

\* A function that goes from the settle delay straight to the read of the
\* key, without loading the API page again.
NextStepSkipsReload(s) ==
    IF ProvisionSteps[s] = "sleep_dialog_close" THEN s + 2 ELSE s + 1

\* scraper.py:98-190  the statements of create_account_and_get_key run one
\* after the other: no branch, no loop
NextStep(s) == s + 1

\* scraper.py:101, 125, 131, 181  `current_url = page.url` after goto(auth_url),
\* wait_for_url(base_url + "/"), goto(api_url) and the second goto(api_url):
\* the address the page is at when the property is read.  The awaited call
\* has returned; the address is the page's, whatever the call waited for.
UrlAfter(name) ==
    CASE name = "goto_auth" -> {"auth", "other"}
      [] name = "wait_for_url" -> {"landing", "other"}
      [] name \in {"goto_api", "goto_api_again"} -> {"api", "other"}
      [] OTHER -> {}

\* scraper.py:105, 124, 135, 145, 165, 185  the awaits that wait for an element
\* or for the redirect, each with timeout=settings.ELEMENT_TIMEOUT or
\* REDIRECT_TIMEOUT
IsWait(s) ==
    ProvisionSteps[s] \in {"wait_email_field", "wait_for_url", "wait_select_button",
                           "wait_radio_button", "wait_continue_2",
                           "wait_api_key_display"}

\* A wait that returns when its timeout ends, as if the element had come.
WaitResultNoFailure(r, appears) == r

\* settings.py:67-71 (timeout= at the six waits)  when what is waited for has
\* not come within the timeout the wait raises TimeoutError; a stop request
\* raised at the await comes first.
WaitResult(r, appears) ==
    IF r = "ok" /\ ~appears THEN "Exception" ELSE r

\* scraper.py:82-199 (called at 327)  one await of create_account_and_get_key.
\* After the last one (text_content) the record is built and returned.
Provision ==
    /\ pc = "provision"
    /\ \E returned \in AwaitResults(~IsSleep(step)),
          appears \in (IF IsWait(step) THEN BOOLEAN ELSE {TRUE}),
          text \in (IF step = NumSteps THEN KeyTexts ELSE {""}),
          url \in (IF UrlAfter(ProvisionSteps[step]) = {} THEN {current_url}
                   ELSE UrlAfter(ProvisionSteps[step])) :
         LET r == WaitResult(returned, appears)
             last == step = NumSteps
             raised == StepRaises(r, last, text)
             begun == [log EXCEPT ![i].ran = Append(@, ProvisionSteps[step]),
                                  ![i].missing = (returned = "ok" /\ ~appears)]
             seen == IF r = "Exception" \/ (r = "ok" /\ last /\ SliceRaises(text))
                     THEN [begun EXCEPT ![i].stepFailed = TRUE] ELSE begun
         IN  IF raised = "none"
             THEN IF ~last
                  THEN /\ step' = NextStep(step)
                       /\ current_url' = url
                       /\ pc' = "provision"
                       /\ log' = seen
                       /\ UNCHANGED << account, error_occurred, exc >>
                  ELSE /\ step' = 0
                       /\ current_url' = "none"
                       /\ account' = Record(text)
                       /\ log' = [seen EXCEPT ![i].record = Record(text),
                                              ![i].provisioned = TRUE]
                       /\ pc' = "save"
                       /\ UNCHANGED << error_occurred, exc >>
             ELSE IF InnerCatches(raised)
                  THEN /\ error_occurred' = TRUE
                       /\ current_url' = "none"
                       /\ log' = seen
                       /\ pc' = "screenshot"
                       /\ UNCHANGED << step, account, exc >>
                  ELSE /\ step' = 0
                       /\ current_url' = "none"
                       /\ log' = NoteStop(seen, raised)
                       /\ pc' = "context_close" /\ exc' = raised
                       /\ UNCHANGED << account, error_occurred >>
    /\ signal' = "none"
    /\ UNCHANGED << i, use_tor, stops, remaining, browser, contexts, collection >>
    /\ UNCHANGED << settings, generated, webvars >>

\* A save that is awaited: a suspension point between extraction and save,
\* at which a pending stop request is raised instead of the call being made.
SaveApiKeyAwaited ==
    /\ pc = "save"
    /\ \E r \in (IF signal # "none" THEN {signal}
                 ELSE save_api_key_to_db(save_api_key_args)) :
         IF r = "ok"
         THEN /\ collection' = Append(collection, Document(account, "None", i))
              /\ log' = Bump("saves")
              /\ pc' = "context_close"
              /\ UNCHANGED << error_occurred, exc >>
         ELSE IF r \in StopKinds
         THEN /\ collection' = collection
              /\ log' = NoteStop(log, r)
              /\ pc' = "context_close" /\ exc' = r
              /\ UNCHANGED error_occurred
         ELSE /\ collection' = collection
              /\ log' = [log EXCEPT ![i].saves = @ + 1, ![i].saveRaised = TRUE]
              /\ error_occurred' = TRUE
              /\ pc' = "screenshot"
              /\ UNCHANGED exc
    /\ signal' = "none"
    /\ UNCHANGED << i, step, use_tor, stops, account, remaining,
                    browser, contexts >>
    /\ UNCHANGED << current_url, settings, generated, webvars >>

\* A save that is tried again when it raised.
SaveRetried ==
    /\ pc = "save"
    /\ log' = [log EXCEPT ![i].saves = @ + 1, ![i].saveRaised = TRUE]
    /\ error_occurred' = TRUE
    /\ pc' = IF log[i].saves = 0 THEN "save" ELSE "screenshot"
    /\ UNCHANGED << i, step, use_tor, exc, signal, stops, account, remaining,
                    browser, contexts, collection >>
    /\ UNCHANGED << current_url, settings, generated, webvars >>

\* scraper.py:328-332  self.save_api_key_to_db(account): a synchronous call
SaveApiKeyToDb ==
    /\ pc = "save"
    /\ \E r \in save_api_key_to_db(save_api_key_args) :
         IF r = "ok"
         THEN /\ collection' = Append(collection, Document(account, "None", i))
              /\ log' = Bump("saves")
              /\ pc' = "context_close"
              /\ UNCHANGED error_occurred
         ELSE /\ collection' = collection
              /\ log' = [log EXCEPT ![i].saves = @ + 1, ![i].saveRaised = TRUE]
              /\ error_occurred' = TRUE
              /\ pc' = "screenshot"
    /\ UNCHANGED << i, step, use_tor, exc, signal, stops, account, remaining,
                    browser, contexts >>
    /\ UNCHANGED << current_url, settings, generated, webvars >>

\* scraper.py:339-353  print page.url; await page.screenshot(...), both inside
\* try/bare-except: whatever is raised there is swallowed.
Screenshot ==
    /\ pc = "screenshot"
    /\ \E r \in AwaitResults(TRUE) :
         LET shot == [log EXCEPT ![i].shots = @ + 1, ![i].ran = << >>,
                                 ![i].missing = FALSE,
                                 ![i].shotFailed = (r = "Exception")]
         IN  IF r = "ok" \/ BareExceptCatches(r)
             THEN /\ pc' = "recovery" /\ exc' = "none"
                  /\ log' = NoteStop(shot, r)
             ELSE /\ pc' = "context_close" /\ exc' = r
                  /\ log' = NoteStop(shot, r)
    /\ step' = 0
    /\ signal' = "none"
    /\ UNCHANGED << i, use_tor, error_occurred, stops, account, remaining,
                    browser, contexts, collection >>
    /\ UNCHANGED << current_url, settings, generated, webvars >>

\* scraper.py:21-24  Controller.from_port, authenticate, signal(NEWNYM): done,
\* or an error of the control channel
ControllerResults == {"ok", "Exception"}

\* scraper.py:18-29  renew_tor_ip: True, or False when the control channel
\* fails (`except Exception` at 27 returns False)
renew_tor_ip == { r = "ok" : r \in ControllerResults }

\* A recovery that never falls back to the countdown when rotation is enabled.
RecoveryStrategyNoFallback(tor, renewed) ==
    IF tor THEN "settle" ELSE "countdown"

\* scraper.py:247-262  which wait handle_error_recovery performs
RecoveryStrategy(tor, renewed) ==
    IF tor THEN (IF renewed THEN "settle" ELSE "countdown") ELSE "countdown"

\* A handler that closes the context before it starts the recovery.
HandleErrorRecoveryAfterClose ==
    /\ pc = "recovery"
    /\ \E renewed \in (IF use_tor THEN renew_tor_ip ELSE {FALSE}) :
         /\ log' = [log EXCEPT ![i].recov = @ + 1, ![i].renewed = renewed,
                                ![i].shotFailed = FALSE]
         /\ IF RecoveryStrategy(use_tor, renewed) = "settle"
            THEN /\ pc' = "tor_wait" /\ remaining' = remaining
            ELSE /\ pc' = "countdown" /\ remaining' = RATE_LIMIT_PAUSE_DURATION
    /\ contexts' = contexts \ {i}
    /\ UNCHANGED << i, step, use_tor, error_occurred, exc, signal, stops,
                    account, browser, collection >>
    /\ UNCHANGED << current_url, settings, generated, webvars >>

\* scraper.py:356, 243-262, 231  handle_error_recovery up to its first await
HandleErrorRecovery ==
    /\ pc = "recovery"
    /\ \E renewed \in (IF use_tor THEN renew_tor_ip ELSE {FALSE}) :
         /\ log' = [log EXCEPT ![i].recov = @ + 1, ![i].renewed = renewed,
                                ![i].shotFailed = FALSE]
         /\ IF RecoveryStrategy(use_tor, renewed) = "settle"
            THEN /\ pc' = "tor_wait" /\ remaining' = remaining
            ELSE IF RATE_LIMIT_PAUSE_DURATION > 0
            THEN /\ pc' = "countdown" /\ remaining' = RATE_LIMIT_PAUSE_DURATION
            ELSE /\ pc' = "context_close" /\ remaining' = remaining
    /\ UNCHANGED << i, step, use_tor, error_occurred, exc, signal, stops,
                    account, browser, contexts, collection >>
    /\ UNCHANGED << current_url, settings, generated, webvars >>

\* scraper.py:255  await asyncio.sleep(settings.TOR_RENEWAL_WAIT), the last
\* statement of handle_error_recovery, and
\* scraper.py:364-365  await asyncio.sleep(settings.DELAY_BETWEEN_REQUESTS),
\* the last statement of the loop body, run when error_occurred is False.
\* (The second is reached only after save_api_key_to_db returned.)
AsyncioSleep ==
    /\ pc \in {"tor_wait", "delay"}
    /\ \E r \in AwaitResults(FALSE) :
         IF pc = "tor_wait"
         THEN /\ pc' = "context_close"
              /\ IF r = "ok"
                 THEN /\ log' = Bump("settle") /\ exc' = "none"
                 ELSE /\ log' = NoteStop(log, r) /\ exc' = r
         ELSE IF r = "ok"
              THEN /\ log' = Bump("delay") /\ pc' = "loop_top" /\ exc' = "none"
              ELSE /\ log' = NoteStop(log, r)
                   /\ pc' = "browser_close" /\ exc' = OuterHandler(r)
    /\ signal' = "none"
    /\ UNCHANGED << i, step, use_tor, error_occurred, stops, account, remaining,
                    browser, contexts, collection >>
    /\ UNCHANGED << current_url, settings, generated, webvars >>

\* A countdown that swallows the cancellation and goes on counting.
CountdownSwallows(e) == FALSE

\* scraper.py:240-241  `except asyncio.CancelledError: raise`
CountdownReraises(e) == TRUE

\* scraper.py:224-241  display_countdown: one `await asyncio.sleep(1)` of
\* `for remaining in range(seconds, 0, -1)`
DisplayCountdown ==
    /\ pc = "countdown"
    /\ \E r \in AwaitResults(FALSE) :
         IF r = "ok" \/ ~CountdownReraises(r)
         THEN /\ log' = NoteStop(Bump("pause"), r)
              /\ remaining' = remaining - 1
              /\ pc' = IF remaining - 1 > 0 THEN "countdown" ELSE "context_close"
              /\ exc' = "none"
         ELSE /\ log' = NoteStop(log, r)
              /\ remaining' = 0
              /\ pc' = "context_close"
              /\ exc' = r
    /\ signal' = "none"
    /\ UNCHANGED << i, step, use_tor, error_occurred, stops, account, browser,
                    contexts, collection >>
    /\ UNCHANGED << current_url, settings, generated, webvars >>

\* A close that leaves the context open.
CloseContextLeaks(open, n) == open

\* scraper.py:360  context.close(): the context of this attempt is gone
CloseContext(open, n) == open \ {n}

\* A loop that sleeps DELAY_BETWEEN_REQUESTS after every attempt.
AfterAttemptAlwaysDelays(err) == "delay"

\* scraper.py:362-365  `if not error_occurred: await asyncio.sleep(...)`
AfterAttempt(err) == IF err THEN "loop_top" ELSE "delay"

\* scraper.py:358-365  finally: await context.close(); then the exception in
\* flight goes on to the outer try, or the loop goes on.
ContextClose ==
    /\ pc = "context_close"
    /\ \E r \in AwaitResults(TRUE) :
         IF r = "ok"
         THEN /\ contexts' = CloseContext(contexts, i)
              /\ log' = Bump("released")
              /\ IF exc # "none"
                 THEN /\ pc' = "browser_close" /\ exc' = OuterHandler(exc)
                 ELSE /\ pc' = AfterAttempt(error_occurred)
                      /\ exc' = "none"
         ELSE /\ contexts' = contexts
              /\ log' = NoteStop(log, r)
              /\ pc' = "browser_close" /\ exc' = OuterHandler(r)
    /\ signal' = "none"
    /\ UNCHANGED << i, step, use_tor, error_occurred, stops, account, remaining,
                    browser, collection >>
    /\ UNCHANGED << current_url, settings, generated, webvars >>

\* An outer try with no finally: the browser is left as it is.
BrowserCloseSkipped ==
    /\ pc = "browser_close"
    /\ pc' = "playwright_stop"
    /\ UNCHANGED << i, step, use_tor, error_occurred, exc, signal, stops,
                    account, remaining, browser, contexts, collection, log >>
    /\ UNCHANGED << current_url, settings, generated, webvars >>

\* scraper.py:369-374  finally: await browser.close().  Closing the browser
\* closes every context it still has.
BrowserClose ==
    /\ pc = "browser_close"
    /\ \E r \in AwaitResults(TRUE) :
         IF r = "ok"
         THEN /\ browser' = "closed" /\ contexts' = {} /\ exc' = exc
         ELSE /\ browser' = browser /\ contexts' = contexts /\ exc' = r
    /\ pc' = "playwright_stop"
    /\ signal' = "none"
    /\ UNCHANGED << i, step, use_tor, error_occurred, stops, account, remaining,
                    collection, log >>
    /\ UNCHANGED << current_url, settings, generated, webvars >>

\* scraper.py:268  the end of `async with async_playwright() as p:`: Playwright
\* is stopped, which ends the driver and with it the browser it launched and
\* every context of that browser.  An exception raised here replaces the one
\* in flight.
PlaywrightStop ==
    /\ pc = "playwright_stop"
    /\ \E r \in AwaitResults(TRUE) :
         IF r = "ok"
         THEN /\ browser' = IF browser = "open" THEN "closed" ELSE browser
              /\ contexts' = {}
              /\ exc' = exc
              /\ log' = log
         ELSE /\ browser' = browser /\ contexts' = contexts /\ exc' = r
              /\ log' = NoteStop(log, r)
    /\ pc' = "done"
    /\ signal' = "none"
    /\ UNCHANGED << i, step, use_tor, error_occurred, stops, account, remaining,
                    collection >>
    /\ UNCHANGED << current_url, settings, generated, webvars >>

Next ==
    \/ StopArrives
    \/ Launch
    \/ LoopTop
    \/ NewContext
    \/ NewPage
    \/ Provision
    \/ SaveApiKeyToDb
    \/ Screenshot
    \/ HandleErrorRecovery
    \/ AsyncioSleep
    \/ DisplayCountdown
    \/ ContextClose
    \/ BrowserClose
    \/ PlaywrightStop

Spec == Init /\ [][Next]_vars

\* ------------------------------------------------ the run with no stop request
\* Every await of scrape_keys ends: the waits have timeouts, the sleeps are
\* finite, and the event loop runs the one coroutine there is.
NextLive ==
    \/ Launch
    \/ LoopTop
    \/ NewContext
    \/ NewPage
    \/ Provision
    \/ SaveApiKeyToDb
    \/ Screenshot
    \/ HandleErrorRecovery
    \/ AsyncioSleep
    \/ DisplayCountdown
    \/ ContextClose
    \/ BrowserClose
    \/ PlaywrightStop

SpecLive == Init /\ [][NextLive]_vars /\ WF_vars(NextLive)

\* ------------------------------------------- the two generators, called alone
\* Characters stand for their class: a sample of string.ascii_lowercase, of
\* string.ascii_uppercase, of string.digits and of "!@#$%^&*".
ascii_lowercase == {"a", "z"}
ascii_uppercase == {"A"}
digits == {"0"}
symbols == {"@"}

\* settings.py:116  string.ascii_letters + string.digits + "!@#$%^&*"
PASSWORD_CHARACTERS == ascii_lowercase \cup ascii_uppercase \cup digits \cup symbols

\* scraper.py:74  the "@gmail.com" of f"{username}@gmail.com"
EmailDomain == << "@", "g", "m", "a", "i", "l", ".", "c", "o", "m" >>

\* A randint that can return one more than its upper limit.
randintPastMax(a, b) == a..(b + 1)

\* random.randint(a, b): an integer N with a <= N <= b
randint(a, b) == a..b

\* random.choices(population, k=k): k elements drawn with replacement
choices(population, k) == [1..k -> population]

\* scraper.py:69-74  generate_random_email: every value it can return
generate_random_email ==
    UNION { { username \o EmailDomain :
                username \in choices(ascii_lowercase \cup digits, username_length) } :
            username_length \in randint(settings.EMAIL_USERNAME_MIN_LENGTH,
                                        settings.EMAIL_USERNAME_MAX_LENGTH) }

\* scraper.py:76-80  generate_random_password: every value it can return
generate_random_password ==
    UNION { choices(PASSWORD_CHARACTERS, length) :
            length \in randint(settings.PASSWORD_MIN_LENGTH,
                               settings.PASSWORD_MAX_LENGTH) }

\* The limits a configuration can give, each range with min <= max.
LengthSettings ==
    { s \in [ EMAIL_USERNAME_MIN_LENGTH : 0..MaxLen,
              EMAIL_USERNAME_MAX_LENGTH : 0..MaxLen,
              PASSWORD_MIN_LENGTH : 0..MaxLen,
              PASSWORD_MAX_LENGTH : 0..MaxLen ] :
        /\ s.EMAIL_USERNAME_MIN_LENGTH <= s.EMAIL_USERNAME_MAX_LENGTH
        /\ s.PASSWORD_MIN_LENGTH <= s.PASSWORD_MAX_LENGTH }

InitGen ==
    /\ Constructed
    /\ use_tor = FALSE
    /\ settings \in LengthSettings
    /\ generated = NotCalled
    /\ NoWebService

\* scraper.py:69-74  one call of generate_random_email
GenerateRandomEmail ==
    /\ generated = NotCalled
    /\ \E email \in generate_random_email :
         generated' = [fn |-> "generate_random_email", value |-> email]
    /\ UNCHANGED << pc, i, step, use_tor, error_occurred, exc, signal, stops,
                    account, remaining, browser, contexts, collection, log,
                    current_url, settings, webvars >>

\* scraper.py:76-80  one call of generate_random_password
GenerateRandomPassword ==
    /\ generated = NotCalled
    /\ \E password \in generate_random_password :
         generated' = [fn |-> "generate_random_password", value |-> password]
    /\ UNCHANGED << pc, i, step, use_tor, error_occurred, exc, signal, stops,
                    account, remaining, browser, contexts, collection, log,
                    current_url, settings, webvars >>

NextGen ==
    \/ GenerateRandomEmail
    \/ GenerateRandomPassword

SpecGen == InitGen /\ [][NextGen]_vars

\* ------------------------------------- save_api_key, called with both arguments
Times == {1, 2}
ScraperIds == {"None", "s1"}

\* scraper.py:194-199  the records create_account_and_get_key can return:
\* email, password and time are named by numbers, as in Record
Accounts ==
    [ email : {1, 2}, password : {3}, api_key : {"k", ""},
      scraped_at : Times ]

InitDb ==
    /\ Constructed
    /\ use_tor = FALSE
    /\ settings = DefaultSettings
    /\ generated = NotCalled
    /\ NoWebService

\* database.py:106-150  save_api_key(account, scraper_id): the document is
\* built and inserted, and True returned; a failed insert raises and leaves
\* the collection as it was.
SaveApiKey ==
    /\ Len(collection) < MaxDocs
    /\ \E acc \in Accounts, scraper_id \in ScraperIds, now \in Times,
          r \in save_api_key(save_api_key_params) :
         /\ account' = acc
         /\ collection' = IF r = "True"
                          THEN Append(collection, Document(acc, scraper_id, now))
                          ELSE collection
    /\ UNCHANGED << pc, i, step, use_tor, error_occurred, exc, signal, stops,
                    remaining, browser, contexts, log, current_url, settings,
                    generated, webvars >>

NextDb == SaveApiKey

SpecDb == InitDb /\ [][NextDb]_vars

\* --------------------------- web_service.py: scrape_keys in a thread of the
\* web service.  run_scraper is the target of the thread started at 123-124;
\* the routes are served by Flask at any moment of it.
scrapervars == << pc, i, step, use_tor, error_occurred, exc, signal, stops,
                  account, remaining, browser, contexts, collection, log,
                  current_url, settings, generated >>

InitWeb ==
    /\ Constructed
    /\ use_tor \in BOOLEAN
    /\ settings = DefaultSettings
    /\ generated = NotCalled
    /\ scraper_status = StatusAtImport
    /\ wpc = "thread_start"
    /\ responses = << >>

\* web_service.py:53-59  the except clauses of scrape(): KeyboardInterrupt
\* gives "stopped", an Exception gives "error" and its text; any other
\* exception, and a return of scrape_keys, pass them by.
ScrapeHandlers(status, e) ==
    CASE e = "KeyboardInterrupt" -> [status EXCEPT !.status = "stopped"]
      [] e = "Exception" -> [status EXCEPT !.status = "error",
                                           !.last_error = "Exception"]
      [] OTHER -> status

\* web_service.py:37  scraper_status["thread_alive"] = True
ThreadStart ==
    /\ wpc = "thread_start"
    /\ scraper_status' = [scraper_status EXCEPT !.thread_alive = TRUE]
    /\ wpc' = "asyncio_run"
    /\ UNCHANGED << scrapervars, responses >>

\* web_service.py:65-72  asyncio.run(scrape()) starts the coroutine, or raises
\* an Exception of its own, handled at 70-72
AsyncioRun ==
    /\ wpc = "asyncio_run"
    /\ \E r \in {"ok", "Exception"} :
         IF r = "ok"
         THEN /\ wpc' = "set_running"
              /\ UNCHANGED scraper_status
         ELSE /\ wpc' = "finally"
              /\ scraper_status' = [scraper_status EXCEPT
                                        !.status = "error",
                                        !.last_error = "Asyncio error"]
    /\ UNCHANGED << scrapervars, responses >>

\* web_service.py:43  scraper_status["status"] = "running"
SetRunning ==
    /\ wpc = "set_running"
    /\ scraper_status' = [scraper_status EXCEPT !.status = "running"]
    /\ wpc' = "construct"
    /\ UNCHANGED << scrapervars, responses >>

\* web_service.py:47  scraper = BytezAPIKeyScraper(): the constructor returns
\* or re-raises the failure to connect (scraper.py:56-63)
Construct ==
    /\ wpc = "construct"
    /\ \E r \in {"ok", "Exception"} :
         IF r = "ok"
         THEN /\ wpc' = "scrape_keys"
              /\ UNCHANGED scraper_status
         ELSE /\ wpc' = "finally"
              /\ scraper_status' = ScrapeHandlers(scraper_status, r)
    /\ UNCHANGED << scrapervars, responses >>

\* web_service.py:51-59  await scraper.scrape_keys() ends: it returned
\* (exc = "none") or the exception it raised meets the handlers of scrape()
ScrapeKeysEnds ==
    /\ wpc = "scrape_keys"
    /\ pc = "done"
    /\ scraper_status' = ScrapeHandlers(scraper_status, exc)
    /\ wpc' = "finally"
    /\ UNCHANGED << scrapervars, responses >>

\* web_service.py:77-78  finally: scraper_status["thread_alive"] = False
ThreadEnd ==
    /\ wpc = "finally"
    /\ scraper_status' = [scraper_status EXCEPT !.thread_alive = FALSE]
    /\ wpc' = "ended"
    /\ UNCHANGED << scrapervars, responses >>

\* web_service.py:84-93  GET /
home ==
    [ route |-> "/",
      body |-> [ status |-> scraper_status.status,
                 thread_alive |-> scraper_status.thread_alive ] ]

\* web_service.py:95-98  GET /health
health == [ route |-> "/health", body |-> [ status |-> "healthy" ] ]

\* web_service.py:100-103  GET /status
status == [ route |-> "/status", body |-> scraper_status ]

\* A request is served by a thread of Flask, between any two steps of
\* run_scraper.
Serve(resp) ==
    /\ wpc # "none"
    /\ Len(responses) < MaxRequests
    /\ responses' = Append(responses, resp)
    /\ UNCHANGED << scrapervars, scraper_status, wpc >>

ServeHome == Serve(home)
ServeHealth == Serve(health)
ServeStatus == Serve(status)

\* web_service.py:51  the steps of scrape_keys, taken in the thread
InScrapeKeys == wpc = "scrape_keys"

NextWeb ==
    \/ ThreadStart
    \/ AsyncioRun
    \/ SetRunning
    \/ Construct
    \/ InScrapeKeys /\ StopArrives
    \/ InScrapeKeys /\ Launch
    \/ InScrapeKeys /\ LoopTop
    \/ InScrapeKeys /\ NewContext
    \/ InScrapeKeys /\ NewPage
    \/ InScrapeKeys /\ Provision
    \/ InScrapeKeys /\ SaveApiKeyToDb
    \/ InScrapeKeys /\ Screenshot
    \/ InScrapeKeys /\ HandleErrorRecovery
    \/ InScrapeKeys /\ AsyncioSleep
    \/ InScrapeKeys /\ DisplayCountdown
    \/ InScrapeKeys /\ ContextClose
    \/ InScrapeKeys /\ BrowserClose
    \/ InScrapeKeys /\ PlaywrightStop
    \/ ScrapeKeysEnds
    \/ ThreadEnd
    \/ ServeHome
    \/ ServeHealth
    \/ ServeStatus

SpecWeb == InitWeb /\ [][NextWeb]_vars



\* ------------------------------------------------------------- claims
Attempts == 1..Len(log)

\* The loop is between two attempts or has exited.
BetweenAttempts == pc \in {"loop_top", "delay", "playwright_stop", "done"}

\* The current attempt is past the waits of its recovery.
RecoveryOver ==
    pc \in {"context_close", "browser_close", "playwright_stop", "loop_top", "done"}

\* C1: when save_api_key_to_db raised in attempt n, the run loop terminates:
\* no attempt n+1 is started and handle_error_recovery is not invoked to
\* continue the run.
C1_PersistenceFailureTerminates ==
    \A n \in Attempts :
        log[n].saveRaised => /\ i = n
                             /\ log[n].recov = 0
                             /\ pc \in {"context_close", "browser_close", "playwright_stop", "done"}

\* C2: an attempt in which a step of create_account_and_get_key raised returns
\* no record and never calls save_api_key_to_db; a record is returned only by
\* the last step (text_content), reached through every earlier step in order,
\* in an attempt in which no step raised.
C2_NoRecordAfterStepFailure ==
    /\ [](\A n \in Attempts :
             /\ log[n].stepFailed =>
                   /\ ~log[n].provisioned
                   /\ log[n].record = NoRecord
                   /\ log[n].saves = 0
             /\ log[n].saves > 0 => log[n].provisioned)
    /\ [][ /\ (step' # step /\ step' # 0) =>
                 \/ (pc = "new_page" /\ step' = 1)
                 \/ (pc = "provision" /\ step' = step + 1)
           /\ (i' = i /\ i > 0 /\ log'[i].provisioned /\ ~log[i].provisioned) =>
                 /\ pc = "provision" /\ step = NumSteps
                 /\ ~log[i].stepFailed /\ ~log'[i].stepFailed
                 /\ account' = log'[i].record ]_vars

\* C2 witness: a step raised (the wait for the dialog's radio button), the
\* handler was entered, and the attempt has no record and no save.
C2_Witness ==
    /\ pc = "screenshot"
    /\ i > 0
    /\ step = 10
    /\ log[i].stepFailed
    /\ log[i].saves = 0

\* C3: every context made by browser.new_context is closed by context.close
\* exactly once: whenever the loop is between attempts or has exited, each
\* attempt's releases equal its acquisitions.
C3_AcquireReleaseParity ==
    BetweenAttempts => \A n \in Attempts : log[n].released = log[n].acquired

\* C4: one strategy per handle_error_recovery call: with rotation enabled and
\* renew_tor_ip successful only the settle wait occurs; otherwise only the
\* countdown occurs, and, unless a stop request ends it, it makes exactly
\* RATE_LIMIT_PAUSE_DURATION one-second waits.
C4_OneRecoveryStrategy ==
    i > 0 =>
        /\ log[i].recov <= 1
        /\ log[i].settle = 0 \/ log[i].pause = 0
        /\ (use_tor /\ log[i].renewed) => log[i].pause = 0 /\ log[i].settle <= 1
        /\ ~(use_tor /\ log[i].renewed) =>
              log[i].settle = 0 /\ log[i].pause <= RATE_LIMIT_PAUSE_DURATION
        /\ (log[i].recov = 1 /\ RecoveryOver
              /\ log[i].stopAt \cap {"tor_wait", "countdown"} = {}) =>
              IF use_tor /\ log[i].renewed
              THEN log[i].settle = 1 /\ log[i].pause = 0
              ELSE log[i].settle = 0 /\ log[i].pause = RATE_LIMIT_PAUSE_DURATION

\* C4 witness: rotation was enabled and failed, and the full countdown ran.
C4_Witness ==
    /\ pc = "context_close"
    /\ i > 0
    /\ use_tor /\ ~log[i].renewed
    /\ log[i].recov = 1
    /\ log[i].pause = RATE_LIMIT_PAUSE_DURATION
    /\ log[i].settle = 0
    /\ exc = "none"

\* The loop is unwinding towards its exit: only finally blocks are left.
Unwinding ==
    \/ pc \in {"browser_close", "playwright_stop", "done"}
    \/ pc = "context_close" /\ exc \in StopKinds

\* C5: a stop request raised during the countdown ends the countdown at once
\* (no further one-second wait), the loop exits without a new attempt, and
\* nothing is inserted afterwards.
C5_StopInCountdownHalts ==
    /\ [][ (pc = "countdown" /\ signal # "none") =>
              /\ pc' = "context_close"
              /\ exc' = signal
              /\ log'[i].pause = log[i].pause
              /\ "countdown" \in log'[i].stopAt ]_vars
    /\ [][ (i > 0 /\ "countdown" \in log[i].stopAt) =>
              /\ i' = i
              /\ collection' = collection
              /\ log'[i].pause = log[i].pause
              /\ Unwinding' ]_vars
    /\ []((i > 0 /\ "countdown" \in log[i].stopAt) => Unwinding)

\* C5 witness: the stop request was raised mid-countdown and scrape_keys ended.
C5_Witness ==
    /\ pc = "done"
    /\ i > 0
    /\ "countdown" \in log[i].stopAt
    /\ log[i].pause > 0
    /\ log[i].pause < RATE_LIMIT_PAUSE_DURATION

\* C6: a stop request raised at any suspension point halts the loop (only the
\* finally blocks run after it), and no context is open when scrape_keys ends.
C6_StopHaltsAndReleases ==
    /\ [][ (signal # "none" /\ signal' = "none") => Unwinding' ]_vars
    /\ []((pc = "done" /\ i > 0 /\ log[i].stopAt # {} /\ exc = "none")
             => contexts = {})

\* C7: from the return of create_account_and_get_key to the end of
\* save_api_key_to_db there is no suspension point: the only step the
\* coroutine takes there is the save call itself, a stop request arriving in
\* that window stays pending over it, and every returned record is handed to
\* save_api_key_to_db exactly once.
C7_SaveNotInterruptible ==
    /\ [][ pc = "save" =>
              \/ /\ log'[i].saves = log[i].saves + 1
                 /\ signal' = signal
                 /\ log'[i].stopAt = log[i].stopAt
              \/ /\ pc' = "save"
                 /\ log'[i].saves = log[i].saves
                 /\ signal = "none" /\ signal' # "none" ]_vars
    /\ [](i > 0 => "save" \notin log[i].stopAt)
    /\ [](\A n \in Attempts :
             (log[n].provisioned /\ (n < i \/ pc # "save")) => log[n].saves = 1)

\* C7 witness: the stop request arrived between the return of the record and
\* the save, the save call was made, and the request was raised only after it.
C7_Witness ==
    /\ i > 0
    /\ log[i].arrivedAt = {"save"}
    /\ log[i].saves = 1
    /\ log[i].stopAt # {}
    /\ "save" \notin log[i].stopAt

\* C8: an attempt in which a step raised gets exactly one
\* handle_error_recovery call and the run goes on; the loop is left only by a
\* failure of save_api_key_to_db or by a stop request.
C8_OnlySaveOrStopLeaveLoop ==
    /\ \A n \in Attempts :
          (log[n].stepFailed /\ (n < i \/ (RecoveryOver /\ log[n].stopAt = {})))
             => log[n].recov = 1
    /\ (i > 0 /\ Unwinding) => (log[i].saveRaised \/ log[i].stopAt # {})

\* The attempts whose create_account_and_get_key returned a record, in order.
Returned == SelectSeq(log, LAMBDA a : a.provisioned)

\* C9: the documents inserted are, in order and one for one, the records
\* create_account_and_get_key returned, each with a non-empty api_key.
C9_InsertedEqualsReturned ==
    pc # "save" =>
       /\ Len(collection) = Len(Returned)
       /\ \A k \in 1..Len(collection) :
             /\ collection[k].email = Returned[k].record.email
             /\ collection[k].password = Returned[k].record.password
             /\ collection[k].api_key = Returned[k].record.api_key
             /\ collection[k].api_key # ""

\* Number of attempts that satisfy Test.
Count(Test(_)) == Cardinality({n \in Attempts : Test(log[n])})
StepFailed(a) == a.stepFailed
Provisioned(a) == a.provisioned
Shot(a) == a.shots > 0

\* C10: between attempts the screenshots taken are one per attempt that
\* failed at a provisioning step, and the inserted records one per attempt
\* whose provisioning succeeded.
C10_ScreenshotsAndRecords ==
    BetweenAttempts =>
       /\ \A n \in Attempts : log[n].shots = (IF log[n].stepFailed THEN 1 ELSE 0)
       /\ Count(Shot) = Count(StepFailed)
       /\ Len(collection) = Count(Provisioned)

\* C11: an empty or absent key text makes the attempt fail: every record
\* create_account_and_get_key returns, and so every record handed to
\* save_api_key_to_db, has a non-empty api_key.
C11_NoEmptyKeyReturned ==
    \A n \in Attempts :
        /\ log[n].provisioned => log[n].record.api_key \notin {"", NoneText}
        /\ log[n].saves > 0 => log[n].record.api_key \notin {"", NoneText}

\* C12: the run loop is left only by a stop request (or a failure of
\* save_api_key_to_db): neither the number of attempts nor a failure of a
\* provisioning step, of the screenshot, of the rotation, or of creating or
\* closing a context ends it.
C12_OnlyStopEndsLoop ==
    (i > 0 /\ pc \in {"browser_close", "playwright_stop", "done"}) =>
        \/ log[i].stopAt # {}
        \/ log[i].saveRaised /\ log[i].recov = 0

\* C13: a record is handed to save_api_key_to_db at most once: one call per
\* attempt at most, made from the save position only, never repeated after it
\* raised, in that attempt or a later one; and no more documents are inserted
\* than saves were called.
C13_SaveAtMostOnce ==
    /\ [](\A n \in Attempts :
             /\ log[n].saves <= 1
             /\ log[n].saveRaised => log[n].saves = 1
             /\ log[n].saves = 1 => log[n].provisioned)
    /\ [](Len(collection) <= Cardinality({n \in Attempts : log[n].saves = 1}))
    /\ [][ \A n \in Attempts :
              /\ log'[n].saves # log[n].saves =>
                    /\ n = i /\ i' = i /\ pc = "save"
                    /\ log[n].saves = 0 /\ log'[n].saves = 1
                    /\ account = log[n].record
              /\ log'[n].record = log[n].record \/ log[n].saves = 0 ]_vars

\* C13 witness: the save of attempt 1 raised, attempt 2 runs, and attempt 1's
\* record was handed over once.
C13_Witness ==
    /\ i = 2
    /\ pc = "provision"
    /\ log[1].saveRaised
    /\ log[1].saves = 1
    /\ log[2].saves = 0

\* The state of the provisioning sequence each await belongs to, numbered in
\* the order NavigateAuth (1), AwaitCredentialForm, SubmitCredentials,
\* AwaitDashboardRedirect, NavigateApiPage, AwaitKeyIssuanceControl,
\* TriggerKeyIssuanceDialog, AwaitDialogOptions, ConfirmDialogOptions,
\* AwaitDialogClose, ReloadApiPage, ExtractKey (12).
StateOf(name) ==
    CASE name = "goto_auth" -> 1
      [] name = "wait_email_field" -> 2
      [] name \in {"fill_email", "fill_password", "click_signin"} -> 3
      [] name = "wait_for_url" -> 4
      [] name = "goto_api" -> 5
      [] name = "wait_select_button" -> 6
      [] name = "click_select" -> 7
      [] name = "wait_radio_button" -> 8
      [] name \in {"click_radio", "click_checkbox", "click_continue_1",
                   "wait_continue_2", "click_continue_2"} -> 9
      [] name = "sleep_dialog_close" -> 10
      [] name = "goto_api_again" -> 11
      [] name \in {"wait_api_key_display", "text_content"} -> 12

\* C16: within an attempt the steps are begun in the fixed order, each at
\* most once and only while every earlier one succeeded; a failing step is the
\* last one begun; the key text is read only after the settle delay and a
\* second load of the API page; a record is returned only after all of them.
C16_StepsInOrder ==
    /\ [](i > 0 =>
          LET r == log[i].ran
          IN  /\ \A k \in 1..Len(r) : r[k] = ProvisionSteps[k]
              /\ \A k, m \in 1..Len(r) : k < m => r[k] # r[m]
              /\ Len(r) > 0 => StateOf(r[1]) = 1
              /\ \A k \in 1..(Len(r) - 1) :
                    StateOf(r[k + 1]) \in {StateOf(r[k]), StateOf(r[k]) + 1}
              /\ \A k \in 1..Len(r) :
                    r[k] = "text_content" =>
                        \E a, b \in 1..k :
                            /\ a < b /\ b < k
                            /\ r[a] = "sleep_dialog_close"
                            /\ r[b] = "goto_api_again"
              /\ pc = "provision" => Len(r) = step - 1
              /\ (pc = "screenshot" /\ log[i].stepFailed) => Len(r) = step
              /\ (pc = "save" /\ log[i].provisioned) =>
                    /\ Len(r) = NumSteps
                    /\ StateOf(r[Len(r)]) = 12)
    /\ [][ (i > 0 /\ i' = i /\ log'[i].ran # log[i].ran) =>
              \/ /\ pc = "provision"
                 /\ ~log[i].stepFailed
                 /\ log'[i].ran = Append(log[i].ran, ProvisionSteps[step])
              \/ pc = "screenshot" /\ log'[i].ran = << >> ]_vars
    /\ [][ (i > 0 /\ i' = i /\ pc = "provision" /\ pc' # "provision") =>
              \/ pc' = "save" /\ log'[i].provisioned
              \/ pc' = "screenshot" /\ log'[i].stepFailed
              \/ pc' = "context_close" /\ exc' \in StopKinds ]_vars
    /\ [][ (i > 0 /\ i' = i /\ pc # "provision") => pc' # "provision" \/ pc = "new_page" ]_vars

\* C16 witness: every step was begun, in order, and the record is returned.
C16_Witness ==
    /\ pc = "save"
    /\ log[i].provisioned
    /\ Len(log[i].ran) = NumSteps
    /\ log[i].ran[NumSteps] = "text_content"

\* C18: between two attempts there is exactly one kind of wait: the recovery
\* wait and no inter-attempt delay after a failed attempt, the inter-attempt
\* delay and no recovery after an attempt that provisioned and saved.
C18_ExactlyOneWait ==
    /\ [](\A n \in Attempts :
             (n < i \/ pc = "loop_top") =>
                 /\ log[n].recov + log[n].delay = 1
                 /\ (log[n].saves = 1 /\ ~log[n].saveRaised) =>
                        log[n].delay = 1 /\ log[n].recov = 0
                 /\ (log[n].stepFailed \/ log[n].saveRaised) =>
                        log[n].recov = 1 /\ log[n].delay = 0)
    /\ []((i > 0 /\ pc = "loop_top" /\ log[i].recov = 1) =>
             /\ log[i].settle + log[i].pause > 0
             /\ log[i].settle = 1 \/ log[i].pause = RATE_LIMIT_PAUSE_DURATION)
    /\ [][ i' # i => pc = "loop_top" /\ i' = i + 1 ]_vars

\* C18 witness: a failed attempt is over, its recovery waited the whole
\* countdown, no inter-attempt delay was slept, and the next attempt may start.
C18_Witness ==
    /\ pc = "loop_top"
    /\ i = 1
    /\ log[1].stepFailed
    /\ log[1].recov = 1
    /\ log[1].pause = RATE_LIMIT_PAUSE_DURATION
    /\ log[1].delay = 0

\* C19: on a failed attempt the screenshot is tried before recovery, and
\* whatever it does, failing included, recovery is called next, once, with
\* no exception in flight; the context is then closed and the loop goes on.
C19_ScreenshotFailureSwallowed ==
    /\ [][ (pc = "screenshot" /\ pc' # "screenshot") =>
              /\ pc' = "recovery"
              /\ exc' = "none"
              /\ log[i].recov = 0
              /\ log'[i].shots = 1 ]_vars
    /\ [][ (pc = "recovery" /\ pc' # "recovery") =>
              /\ log[i].shots = 1
              /\ log'[i].recov = 1
              /\ i \in contexts ]_vars
    /\ [](\A n \in Attempts :
             /\ log[n].recov <= log[n].shots
             /\ log[n].recov <= 1
             /\ (log[n].shots = 1 /\ (n < i \/ pc = "loop_top")) =>
                    log[n].recov = 1 /\ log[n].released = 1)

\* C19 witness: the screenshot of a failed attempt raised, and recovery is
\* about to be called with no exception in flight and the context still open.
C19_Witness ==
    /\ pc = "recovery"
    /\ log[i].shotFailed
    /\ log[i].recov = 0
    /\ exc = "none"
    /\ i \in contexts

\* C20: when renew_tor_ip fails, handle_error_recovery raises nothing: it
\* goes on to the countdown, and the next attempt starts only after the whole
\* RATE_LIMIT_PAUSE_DURATION was slept.
C20_RotationFailureFallsBack ==
    /\ [][ (pc = "recovery" /\ pc' # "recovery") =>
              /\ exc' = "none"
              /\ (use_tor /\ ~log'[i].renewed) =>
                    pc' = "countdown" /\ remaining' = RATE_LIMIT_PAUSE_DURATION ]_vars
    /\ [][ (pc = "countdown" /\ pc' # "countdown" /\ exc' = "none") =>
              log'[i].pause = RATE_LIMIT_PAUSE_DURATION ]_vars
    /\ []((i > 0 /\ pc = "loop_top" /\ use_tor /\ log[i].recov = 1
              /\ ~log[i].renewed) =>
             /\ log[i].pause = RATE_LIMIT_PAUSE_DURATION
             /\ log[i].settle = 0
             /\ log[i].released = 1
             /\ exc = "none")

\* C20 witness: rotation is enabled, renew_tor_ip returned False, the whole
\* countdown was slept and the loop is about to start the next attempt.
C20_Witness ==
    /\ pc = "loop_top"
    /\ use_tor
    /\ i > 0
    /\ log[i].recov = 1
    /\ ~log[i].renewed
    /\ log[i].pause = RATE_LIMIT_PAUSE_DURATION
    /\ exc = "none"

\* C17: the API page is navigated to only when the address read after the
\* redirect wait is BASE_URL + "/": a wait that returns while the page is at
\* another address still fails the attempt at that step.
C17_RedirectAddressChecked ==
    (pc = "provision" /\ ProvisionSteps[step] = "goto_api") =>
        current_url = "landing"

\* The document a call of save_api_key has just inserted.
Inserted == collection'[Len(collection')]

\* C14: every document save_api_key writes carries the record's
\* email, password, api_key and scraped_at unchanged, plus the placeholders
\* in_use = false, locked_at and used_by empty, an empty usage map and the
\* scraper reference.
C14_DocumentCarriesRecord ==
    [][ Len(collection') > Len(collection) =>
           /\ Inserted.email = account'.email
           /\ Inserted.password = account'.password
           /\ Inserted.api_key = account'.api_key
           /\ "scraped_at" \in DOMAIN Inserted
           /\ Inserted.scraped_at = account'.scraped_at
           /\ Inserted.in_use = FALSE
           /\ Inserted.locked_at = "None"
           /\ Inserted.used_by = "None"
           /\ Inserted.models_expirations = << >> ]_vars

\* C15: whatever limits with min <= max are configured and whatever is drawn,
\* generate_random_email returns a username of lowercase letters and digits
\* whose length is within the username limits, followed by "@gmail.com", and
\* generate_random_password returns PASSWORD_CHARACTERS characters, their
\* number within the password limits.
C15_GeneratedWithinLimits ==
    /\ generated.fn = "generate_random_email" =>
          LET email == generated.value
              n == Len(email) - Len(EmailDomain)
          IN  /\ n >= settings.EMAIL_USERNAME_MIN_LENGTH
              /\ n <= settings.EMAIL_USERNAME_MAX_LENGTH
              /\ \A k \in 1..n : email[k] \in ascii_lowercase \cup digits
              /\ \A k \in 1..Len(EmailDomain) : email[n + k] = EmailDomain[k]
    /\ generated.fn = "generate_random_password" =>
          LET password == generated.value
          IN  /\ Len(password) >= settings.PASSWORD_MIN_LENGTH
              /\ Len(password) <= settings.PASSWORD_MAX_LENGTH
              /\ \A k \in 1..Len(password) :
                    password[k] \in ascii_lowercase \cup ascii_uppercase
                                    \cup digits \cup symbols

\* C15 witness: with a username range of more than one length, an email
\* whose username has the largest length allowed.
C15_Witness ==
    /\ generated.fn = "generate_random_email"
    /\ settings.EMAIL_USERNAME_MIN_LENGTH < settings.EMAIL_USERNAME_MAX_LENGTH
    /\ Len(generated.value) =
          settings.EMAIL_USERNAME_MAX_LENGTH + Len(EmailDomain)

\* C21: attempts are sequential and isolated: at most one context is open
\* at any time and it is the one the current attempt created; a context is
\* created only when none is open; the steps of an attempt run on the
\* context of that attempt.
C21_OneSessionAtATime ==
    /\ [](Cardinality(contexts) <= 1)
    /\ [](contexts \subseteq {i})
    /\ [](pc \in {"provision", "save", "screenshot", "recovery", "tor_wait",
                  "countdown", "context_close"} => contexts = {i})
    /\ [](\A n \in Attempts : n < i => log[n].acquired = log[n].released)
    /\ [][ (contexts' # contexts /\ contexts' # {}) =>
              /\ pc = "new_context"
              /\ contexts = {}
              /\ contexts' = {i}
              /\ log[i].acquired = 0 ]_vars
    /\ [][ i' # i => contexts = {} ]_vars

\* C21 witness: attempt 2 runs on its own context after attempt 1's context
\* was closed.
C21_Witness ==
    /\ i = 2
    /\ pc = "provision"
    /\ contexts = {2}
    /\ log[1].acquired = 1
    /\ log[1].released = 1

\* C22: every wait of the provisioning sequence is bounded: a wait whose
\* element or redirect never comes raises at its timeout, which fails the
\* attempt at that step (it is not passed over), and an attempt never stays
\* in the provisioning sequence for ever: it ends with a record or a failure.
C22_WaitsBounded ==
    /\ [](i > 0 /\ log[i].missing =>
             /\ pc = "screenshot"
             /\ IsWait(step)
             /\ log[i].stepFailed
             /\ ~log[i].provisioned
             /\ log[i].ran[Len(log[i].ran)] = ProvisionSteps[step])
    /\ [][ (pc = "provision" /\ pc' = "provision" /\ step' # step) =>
              ~log'[i].missing ]_vars
    /\ \A s \in 1..NumSteps :
          (pc = "provision" /\ step = s) ~> (pc # "provision" \/ step > s)
    /\ (pc = "provision") ~> (pc \in {"save", "screenshot"})

\* C22 witness: the redirect never came; the wait raised and the attempt is
\* failed at that step.
C22_Witness ==
    /\ pc = "screenshot"
    /\ log[i].missing
    /\ ProvisionSteps[step] = "wait_for_url"
    /\ log[i].stepFailed

\* C23: with no stop request and no failure of the save, every attempt that
\* started, failed or not, is followed by the start of the next one.
C23_NextAttemptFollows ==
    \A n \in 1..(MaxAttempts - 1) :
        (i = n) ~> (i = n + 1 \/ (i = n /\ log[n].saveRaised))

\* C24: the attempt counter is 0 before the loop, goes up by exactly one at
\* the top of every iteration, before the context of that iteration is
\* created, and changes nowhere else; the total printed when scrape_keys
\* returns is the number of attempts started.
C24_AttemptCounter ==
    /\ [](pc = "launch" => i = 0)
    /\ [](i = Len(log))
    /\ [][ i' # i =>
              /\ i' = i + 1
              /\ pc = "loop_top"
              /\ pc' = "new_context"
              /\ contexts' = {}
              /\ log'[i'].acquired = 0 ]_vars
    /\ [][ (pc = "loop_top" /\ pc' # "loop_top") => i' = i + 1 ]_vars
    /\ []((pc = "done" /\ exc = "none") =>
             /\ TotalAttempts = Len(log)
             /\ TotalAttempts = Cardinality({n \in Attempts : log[n].acquired <= 1}))

\* C24 witness: scrape_keys returns in its second attempt and prints 2.
C24_Witness ==
    /\ pc = "done"
    /\ exc = "none"
    /\ TotalAttempts = 2
    /\ log[2].acquired = 1

\* C26: on a failed attempt the context stays open through the whole
\* recovery: while handle_error_recovery runs, in the settle sleep or in the
\* countdown, exactly the context of the attempt is open, and context.close
\* comes only after handle_error_recovery returned or was interrupted.
C26_SessionOpenDuringRecovery ==
    /\ [](pc \in {"recovery", "tor_wait", "countdown"} =>
             /\ contexts = {i}
             /\ log[i].released = 0)
    /\ [][ (i > 0 /\ i' = i /\ contexts = {i} /\ contexts' = {}) =>
              /\ pc \in {"context_close", "browser_close", "playwright_stop"}
              /\ (pc = "context_close" /\ error_occurred /\ exc = "none") =>
                    /\ log[i].recov = 1
                    /\ log[i].settle = 1 \/ log[i].pause = RATE_LIMIT_PAUSE_DURATION
              /\ (pc = "context_close" /\ log[i].recov = 1 /\ exc # "none") =>
                    log[i].stopAt \cap {"tor_wait", "countdown"} # {} ]_vars

\* C26 witness: the last second of the countdown of a failed attempt, with
\* the context of that attempt still open.
C26_Witness ==
    /\ pc = "countdown"
    /\ remaining = 1
    /\ log[i].pause = RATE_LIMIT_PAUSE_DURATION - 1
    /\ contexts = {i}
    /\ log[i].released = 0

C25_StatusReflectsRunLoop ==
    /\ [](wpc = "scrape_keys" =>
             /\ scraper_status.status = "running"
             /\ scraper_status.keys_scraped =
                    Cardinality({n \in 1..(i - 1) : log[n].provisioned})
             /\ (\E n \in 1..(i - 1) : log[n].provisioned) =>
                    scraper_status.last_success # "None"
             /\ (\E n \in 1..(i - 1) : log[n].stepFailed) =>
                    scraper_status.last_error # "None")
    /\ [][ responses' # responses =>
              UNCHANGED << scrapervars, scraper_status, wpc >> ]_vars

\* C28: once the thread has ended, thread_alive back to False, the status is
\* "stopped" or "error", never "starting" or "running", whether scrape_keys
\* returned after a stop, raised a KeyboardInterrupt or an Exception, or was
\* never called because the construction or asyncio.run failed, and whatever
\* requests were served meanwhile.  (The cancellation of the task, which
\* nothing in the service asks for, is left aside.)
C28_RunningOnlyWhileAlive ==
    (wpc = "ended" /\ exc # "CancelledError") =>
        /\ ~scraper_status.thread_alive
        /\ scraper_status.status \in {"stopped", "error"}

====
